---- MODULE Spec2Model ----
(***************************************************************************)
(* Model of data/process_data.py: the ETL pipeline load_data ->            *)
(* clean_data -> save_data driven by main.                                 *)
(*                                                                         *)
(* Text is modelled as a sequence of atoms (a column name, a message, a    *)
(* packed category string are all such sequences), so that str.split and   *)
(* the int conversion are computed, not assumed.  A DataFrame is a record  *)
(* [live, columns, index, data]: column labels, row labels and one tuple   *)
(* of cells per row.                                                       *)
(***************************************************************************)
EXTENDS Integers, Sequences, FiniteSets, TLC

\* ---- bounds ----
MaxMsgRows == 2
MaxCatRows == 2
MaxRuns == 2

\* ---- text ----
ID == <<"id">>
MESSAGE == <<"message">>
CATEGORIES == <<"categories">>
RELATED == <<"related">>

\* a cell that str.split(expand=True) pads a short row with
NoneVal == <<"\\None">>

Digits == {"0", "1", "2"}

DigitVal(a) == CASE a = "0" -> 0 [] a = "1" -> 1 [] a = "2" -> 2

\* str.split(sep): the parts between the separators, at least one part
RECURSIVE Split(_, _)
Split(s, sep) ==
  IF \A i \in 1..Len(s) : s[i] # sep
  THEN <<s>>
  ELSE LET i == CHOOSE i \in 1..Len(s) :
                  s[i] = sep /\ \A j \in 1..(i-1) : s[j] # sep
       IN  <<SubSeq(s, 1, i-1)>> \o Split(SubSeq(s, i+1, Len(s)), sep)

\* what int() accepts among the texts of the model: a non-empty digit string
IsIntLiteral(p) == Len(p) > 0 /\ \A i \in 1..Len(p) : p[i] \in Digits

RECURSIVE ParseInt(_)
ParseInt(p) ==
  IF Len(p) = 0 THEN 0
  ELSE 10 * ParseInt(SubSeq(p, 1, Len(p)-1)) + DigitVal(p[Len(p)])

\* ---- frames ----
NoFrame == [live |-> FALSE, columns |-> <<>>, index |-> <<>>, data |-> <<>>]

RangeIndex(n) == [i \in 1..n |-> i - 1]

Frame(cols, rows) ==
  [live |-> TRUE, columns |-> cols, index |-> RangeIndex(Len(rows)), data |-> rows]

ColIndex(cols, name) == CHOOSE k \in 1..Len(cols) : cols[k] = name

\* ---- the input files ----
MsgRows == { <<1, <<"help">>>>, <<2, <<"food">>>> }

PackedStrings ==
  { <<"related","-","1",";","request","-","0">>,
    <<"related","-","2",";","request","-","0">>,
    <<"request","-","2",";","related","-","2">>,
    <<"request","-","1">>,
    <<"related",";","request","-","0">>,
    <<"related","-","1","-","x",";","request","-","0">> ,
    <<"related","-","x",";","request","-","0">>,
    <<"request","-","1",";","request","-","0">> }

CatRows == { <<i, p>> : i \in {1, 2}, p \in PackedStrings }

SeqsUpTo(S, n) == UNION { [1..k -> S] : k \in 1..n }

MissingFile == [exists |-> FALSE, rows |-> <<>>]

CsvFile(rows) == [exists |-> TRUE, rows |-> rows]

MsgFiles == { CsvFile(r) : r \in SeqsUpTo(MsgRows, MaxMsgRows) } \cup {MissingFile}

CatFiles == { CsvFile(r) : r \in SeqsUpTo(CatRows, MaxCatRows) } \cup {MissingFile}

Argcs == {2, 3, 4}

\* ---- load_data ----
read_csv(file, cols) == Frame(cols, file.rows)

\* variant: a left row is paired with its first match only
RECURSIVE Matches_first(_, _)
Matches_first(l, R) ==
  IF R = <<>> THEN <<>>
  ELSE IF Head(R)[1] = l[1] THEN << <<l[1], l[2], Head(R)[2]>> >>
  ELSE Matches_first(l, Tail(R))

\* the right rows that match one left row, in right order
RECURSIVE Matches(_, _)
Matches(l, R) ==
  IF R = <<>> THEN <<>>
  ELSE (IF Head(R)[1] = l[1] THEN << <<l[1], l[2], Head(R)[2]>> >> ELSE <<>>)
       \o Matches(l, Tail(R))

RECURSIVE MergeRows(_, _)
MergeRows(L, R) ==
  IF L = <<>> THEN <<>> ELSE Matches(Head(L), R) \o MergeRows(Tail(L), R)

merge(messages, categories) ==
  Frame(<<ID, MESSAGE, CATEGORIES>>, MergeRows(messages.data, categories.data))

load_data(mfile, cfile) ==
  IF ~mfile.exists \/ ~cfile.exists
  THEN [err |-> "FileNotFoundError", df |-> NoFrame]
  ELSE [err |-> "none",
        df  |-> merge(read_csv(mfile, <<ID, MESSAGE>>),
                      read_csv(cfile, <<ID, CATEGORIES>>))]

\* ---- clean_data ----
\* Series.str.split(";", expand=True): one column per part, short rows
\* padded with None up to the longest row
StrSplitExpand(series) ==
  LET parts == [i \in 1..Len(series) |-> Split(series[i], ";")]
      width == IF Len(series) = 0 THEN 0
               ELSE CHOOSE w \in { Len(parts[i]) : i \in 1..Len(series) } :
                      \A i \in 1..Len(series) : Len(parts[i]) <= w
  IN  [i \in 1..Len(series) |->
        [k \in 1..width |-> IF k <= Len(parts[i]) THEN parts[i][k] ELSE NoneVal]]

\* lambda x: x.split('-')[0] on the first row
ColName(x) == Split(x, "-")[1]

\* variant: the last part instead of the second
ValuePart_last(x) == Split(x, "-")[Len(Split(x, "-"))]

\* lambda x: x.split('-')[1]
ValuePart(x) == Split(x, "-")[2]

\* the error raised by lambda x: x.split('-')[1] on one cell, if any
CellErr(x) ==
  IF x = NoneVal THEN "AttributeError"
  ELSE IF Len(Split(x, "-")) < 2 THEN "IndexError"
  ELSE "none"

\* one iteration of the conversion loop on the column at position k
ColErr(cats, names, k) ==
  LET n == Len(cats) IN
  IF \E j \in 1..Len(names) : j # k /\ names[j] = names[k]
  THEN "AttributeError"
  ELSE IF \E i \in 1..n : CellErr(cats[i][k]) # "none"
  THEN CellErr(cats[CHOOSE i \in 1..n :
                      /\ CellErr(cats[i][k]) # "none"
                      /\ \A j \in 1..(i-1) : CellErr(cats[j][k]) = "none"][k])
  ELSE IF \E i \in 1..n : ~IsIntLiteral(ValuePart(cats[i][k]))
  THEN "ValueError"
  ELSE "none"

\* the conversion loop: the error of the first column that raises one
LoopErr(cats, names) ==
  LET w == Len(names) IN
  IF \A k \in 1..w : ColErr(cats, names, k) = "none" THEN "none"
  ELSE ColErr(cats, names,
              CHOOSE k \in 1..w :
                /\ ColErr(cats, names, k) # "none"
                /\ \A j \in 1..(k-1) : ColErr(cats, names, j) = "none")

\* variant: each cell is looked up by the column's name among the row's
\* tokens (falling back on the position when no token has that name)
Converted_byName(cats) ==
  [i \in 1..Len(cats) |->
    [k \in 1..Len(cats[i]) |->
      LET same == { m \in 1..Len(cats[i]) :
                      Split(cats[i][m], "-")[1] = Split(cats[1][k], "-")[1] }
          m == IF same = {} THEN k
               ELSE CHOOSE x \in same : \A y \in same : x <= y
      IN  ParseInt(Split(cats[i][m], "-")[2])]]

\* categories[column] after the loop: the integer of each cell's value part
Converted(cats) ==
  [i \in 1..Len(cats) |->
    [k \in 1..Len(cats[i]) |-> ParseInt(ValuePart(cats[i][k]))]]

\* lambda x: 1 if x == 2 else x
RelatedFix(x) == IF x = 2 THEN 1 ELSE x

\* variant: the rewrite applied to every category column
MapRelated_all(vals, names) ==
  [i \in 1..Len(vals) |->
    [k \in 1..Len(vals[i]) |-> RelatedFix(vals[i][k])]]

\* categories['related'] = categories['related'].map(...)
MapRelated(vals, names) ==
  [i \in 1..Len(vals) |->
    [k \in 1..Len(vals[i]) |->
      IF names[k] = RELATED THEN RelatedFix(vals[i][k]) ELSE vals[i][k]]]

DropAt(row, c) == SubSeq(row, 1, c-1) \o SubSeq(row, c+1, Len(row))

\* df.drop('categories', axis=1, inplace=True)
DropCategories(df) ==
  LET c == ColIndex(df.columns, CATEGORIES) IN
  [df EXCEPT !.columns = DropAt(df.columns, c),
             !.data = [i \in 1..Len(df.data) |-> DropAt(df.data[i], c)]]

\* pd.concat([df, categories], axis=1): both carry the same row labels
Concat(df, names, vals) ==
  [df EXCEPT !.columns = df.columns \o names,
             !.data = [i \in 1..Len(df.data) |-> df.data[i] \o vals[i]]]

RECURSIVE KeptFrom(_, _)
KeptFrom(data, i) ==
  IF i > Len(data) THEN <<>>
  ELSE (IF \E j \in 1..(i-1) : data[j] = data[i] THEN <<>> ELSE <<i>>)
       \o KeptFrom(data, i + 1)

\* variant: the deduplicated copy is discarded
DropDuplicates_discarded(df) == df

\* df.drop_duplicates(inplace=True): keep the first of equal rows, with
\* its row label
DropDuplicates(df) ==
  LET kept == KeptFrom(df.data, 1) IN
  [df EXCEPT !.index = [j \in 1..Len(kept) |-> df.index[kept[j]]],
             !.data = [j \in 1..Len(kept) |-> df.data[kept[j]]]]

\* clean_data(df): the error raised (or "none"), the frame returned and the
\* caller's frame as the call leaves it
clean_data(df) ==
  LET c      == ColIndex(df.columns, CATEGORIES)
      series == [i \in 1..Len(df.data) |-> df.data[i][c]]
      cats   == StrSplitExpand(series)
      fail(e) == [err |-> e, out |-> NoFrame, inp |-> df]
  IN
  IF Len(cats) = 0 THEN fail("IndexError")
  ELSE IF \E k \in 1..Len(cats[1]) : cats[1][k] = NoneVal
  THEN fail("AttributeError")
  ELSE
    LET names == [k \in 1..Len(cats[1]) |-> ColName(cats[1][k])] IN
    IF LoopErr(cats, names) # "none" THEN fail(LoopErr(cats, names))
    ELSE IF \A k \in 1..Len(names) : names[k] # RELATED THEN fail("KeyError")
    ELSE
      LET vals    == MapRelated(Converted(cats), names)
          dropped == DropCategories(df)
      IN  [err |-> "none",
           out |-> DropDuplicates(Concat(dropped, names, vals)),
           inp |-> dropped]

\* ---- save_data ----
NoStore == [exists |-> FALSE, columns |-> <<>>, rows |-> <<>>]

\* variant: if_exists='append'
to_sql_append(store, df) ==
  [exists |-> TRUE, columns |-> df.columns,
   rows |-> (IF store.exists THEN store.rows ELSE <<>>) \o df.data]

\* df.to_sql('messages_disaster', engine, index=False, if_exists='replace')
to_sql(store, df) == [exists |-> TRUE, columns |-> df.columns, rows |-> df.data]

\* save_data(df, database_filename): the error raised and the store after it;
\* a destination that cannot be opened for writing is left as it was
save_data(store, df, canWrite) ==
  IF canWrite THEN [err |-> "none", store |-> to_sql(store, df)]
  ELSE [err |-> "OperationalError", store |-> store]

\* ---- main ----
\* argc: number of positional arguments; msgsFile, catsFile: the two input
\* files; db: the destination store; writable: whether it can be written;
\* merged: the frame load_data returned; cleaned: the frame clean_data
\* returned; err: the error that ended the run; out: the lines printed;
\* calls: the stage functions invoked in this run; dbBefore: the store as
\* the run found it; runs: the number of runs of the script so far
VARIABLES argc, msgsFile, catsFile, db, writable, pc, merged, cleaned, err,
          out, calls, dbBefore, runs

vars == <<argc, msgsFile, catsFile, db, writable, pc, merged, cleaned, err,
          out, calls, dbBefore, runs>>

USAGE == "Please provide the filepaths"

Init ==
  /\ argc \in Argcs
  /\ msgsFile \in MsgFiles
  /\ catsFile \in CatFiles
  /\ db = NoStore
  /\ dbBefore = NoStore
  /\ writable \in BOOLEAN
  /\ pc = "start"
  /\ merged = NoFrame
  /\ cleaned = NoFrame
  /\ err = "none"
  /\ out = <<>>
  /\ calls = <<>>
  /\ runs = 1

\* variant: the argument count is tested with >=
MainLoad_atleast ==
  /\ pc = "start"
  /\ argc >= 3
  /\ LET r == load_data(msgsFile, catsFile) IN
       /\ merged' = r.df
       /\ err' = r.err
       /\ pc' = IF r.err = "none" THEN "loaded" ELSE "failed"
  /\ out' = Append(out, "Loading data...")
  /\ calls' = Append(calls, "load_data")
  /\ UNCHANGED <<argc, msgsFile, catsFile, db, writable, cleaned, dbBefore, runs>>

\* main, lines 94-96: print, then df = load_data(...)
MainLoad ==
  /\ pc = "start"
  /\ argc = 3
  /\ LET r == load_data(msgsFile, catsFile) IN
       /\ merged' = r.df
       /\ err' = r.err
       /\ pc' = IF r.err = "none" THEN "loaded" ELSE "failed"
  /\ out' = Append(out, "Loading data...")
  /\ calls' = Append(calls, "load_data")
  /\ UNCHANGED <<argc, msgsFile, catsFile, db, writable, cleaned, dbBefore, runs>>

\* variant: an error of clean_data is swallowed and the run goes on
MainClean_swallow ==
  /\ pc = "loaded"
  /\ LET r == clean_data(merged) IN
       /\ merged' = r.inp
       /\ cleaned' = r.out
       /\ err' = r.err
       /\ pc' = "cleaned"
  /\ out' = Append(out, "Cleaning data...")
  /\ calls' = Append(calls, "clean_data")
  /\ UNCHANGED <<argc, msgsFile, catsFile, db, writable, dbBefore, runs>>

\* main, lines 98-99: print, then df = clean_data(df)
MainClean ==
  /\ pc = "loaded"
  /\ LET r == clean_data(merged) IN
       /\ merged' = r.inp
       /\ cleaned' = r.out
       /\ err' = r.err
       /\ pc' = IF r.err = "none" THEN "cleaned" ELSE "failed"
  /\ out' = Append(out, "Cleaning data...")
  /\ calls' = Append(calls, "clean_data")
  /\ UNCHANGED <<argc, msgsFile, catsFile, db, writable, dbBefore, runs>>

\* main, lines 101-104: print, save_data(df, database_filepath), print
MainSave ==
  /\ pc = "cleaned"
  /\ LET r == save_data(db, cleaned, writable) IN
       /\ db' = r.store
       /\ err' = r.err
       /\ pc' = IF r.err = "none" THEN "done" ELSE "failed"
       /\ out' = IF r.err = "none"
                 THEN out \o <<"Saving data...", "Cleaned data saved to database!">>
                 ELSE Append(out, "Saving data...")
  /\ calls' = Append(calls, "save_data")
  /\ UNCHANGED <<argc, msgsFile, catsFile, writable, merged, cleaned, dbBefore, runs>>

\* main, lines 106-112: the usage message
MainUsage ==
  /\ pc = "start"
  /\ argc # 3
  /\ pc' = "done"
  /\ out' = Append(out, USAGE)
  /\ UNCHANGED <<argc, msgsFile, catsFile, db, writable, merged, cleaned, err,
                 calls, dbBefore, runs>>

\* the script is run again: new arguments, the categories file possibly
\* edited in between (its last row removed), the database file kept
Rerun ==
  /\ pc \in {"done", "failed"}
  /\ runs < MaxRuns
  /\ runs' = runs + 1
  /\ argc' \in Argcs
  /\ catsFile' \in {catsFile} \cup
       (IF catsFile.exists /\ Len(catsFile.rows) > 1
        THEN {CsvFile(SubSeq(catsFile.rows, 1, Len(catsFile.rows) - 1))}
        ELSE {})
  /\ pc' = "start"
  /\ merged' = NoFrame
  /\ cleaned' = NoFrame
  /\ err' = "none"
  /\ out' = <<>>
  /\ calls' = <<>>
  /\ dbBefore' = db
  /\ UNCHANGED <<msgsFile, db, writable>>

Next == MainLoad \/ MainClean \/ MainSave \/ MainUsage \/ Rerun

Spec == Init /\ [][Next]_vars

\* ---- notions the claims are stated in ----
Last(q) == q[Len(q)]

\* the merged table handed to clean_data in this run (the input files do
\* not change during a run)
MergedInput == load_data(msgsFile, catsFile).df

\* load_data has returned in this run
LoadReturned == Len(calls) >= 1 /\ merged.live

\* clean_data was called in this run and has returned or raised
CleanCalled == Len(calls) >= 2

\* clean_data has returned a table in this run
CleanCompleted == Len(calls) >= 2 /\ cleaned.live

\* the tokens of the packed string of row i of the merged input
Tokens(i) == Split(MergedInput.data[i][3], ";")

\* the widest row's token count
MaxTokens ==
  CHOOSE w \in { Len(Tokens(i)) : i \in 1..Len(MergedInput.data) } :
    \A i \in 1..Len(MergedInput.data) : Len(Tokens(i)) <= w

\* the row of the merged input that row j of the cleaned table comes from
SourceRow(j) == cleaned.index[j] + 1

\* the number of decoded category columns of the cleaned table
NumCats == Len(cleaned.columns) - 2

MsgIds == { msgsFile.rows[i][1] : i \in 1..Len(msgsFile.rows) }

CatIds == { catsFile.rows[i][1] : i \in 1..Len(catsFile.rows) }

CommonIds == MsgIds \cap CatIds

\* the pairs (messages row, categories row) that carry the same id
MatchPairs ==
  { <<i, j>> \in (1..Len(msgsFile.rows)) \X (1..Len(catsFile.rows)) :
      msgsFile.rows[i][1] = catsFile.rows[j][1] }

NoRepeatedId(rows) ==
  \A i, j \in 1..Len(rows) : rows[i][1] = rows[j][1] => i = j

\* ---- C1 ----
\* C1 (as claimed): whenever clean_data completes, every value of every
\* decoded category column of its output is 0 or 1
C1_AllValuesBinary ==
  CleanCompleted =>
    \A j \in 1..Len(cleaned.data) : \A k \in 1..NumCats :
      cleaned.data[j][2 + k] \in {0, 1}

\* ---- C2 ----
\* C2 (as claimed): the number of rows load_data returns equals the number
\* of identifiers present in both input files
C2_CountIsCommonIds ==
  LoadReturned => Len(merged.data) = Cardinality(CommonIds)

\* C2 (amended): the number of rows load_data returns equals the number of
\* pairs of a messages row and a categories row with the same id; it is the
\* number of common identifiers when no id is repeated within either file
C2_CountIsMatchPairs ==
  (pc = "loaded") =>
    /\ Len(merged.data) = Cardinality(MatchPairs)
    /\ (NoRepeatedId(msgsFile.rows) /\ NoRepeatedId(catsFile.rows))
         => Len(merged.data) = Cardinality(CommonIds)
    /\ \A i \in 1..Len(merged.data) : merged.data[i][1] \in CommonIds

C2_Witness ==
  /\ pc = "loaded"
  /\ ~NoRepeatedId(catsFile.rows)
  /\ MsgIds \ CatIds # {}
  /\ Len(merged.data) > Cardinality(CommonIds)

\* ---- C3 ----
\* C3: no two rows of the table clean_data returns are equal in all columns
C3_NoDuplicateRows ==
  CleanCompleted =>
    \A i, j \in 1..Len(cleaned.data) :
      cleaned.data[i] = cleaned.data[j] => i = j

\* two merged rows with different packed strings (related 2 against
\* related 1) have become one row
C3_Witness ==
  /\ CleanCompleted
  /\ Len(cleaned.data) < Len(MergedInput.data)
  /\ \E a, b \in 1..Len(MergedInput.data) :
       /\ MergedInput.data[a][3] # MergedInput.data[b][3]
       /\ MergedInput.data[a][1] = MergedInput.data[b][1]
       /\ MergedInput.data[a][2] = MergedInput.data[b][2]
       /\ \A j \in 1..Len(cleaned.data) : SourceRow(j) # b

\* ---- C4 ----
\* C4: after a successful save_data the table messages_disaster holds
\* exactly the columns and rows of the table passed to that call, whatever
\* the store held before, and nothing but a successful save_data changes it
C4_FullReplace ==
  /\ [](Len(calls) = 3 /\ err = "none" =>
          db = [exists |-> TRUE, columns |-> cleaned.columns, rows |-> cleaned.data])
  /\ [][db' # db => pc = "cleaned" /\ pc' = "done"]_vars

\* a second save onto a store that held more rows
C4_Witness ==
  /\ Len(calls) = 3 /\ err = "none"
  /\ dbBefore.exists
  /\ Len(dbBefore.rows) > Len(db.rows)
  /\ db.rows = cleaned.data

\* ---- C5 ----
\* C5: the stages are invoked in the order load_data, clean_data,
\* save_data; an error in a stage ends the run there; when load_data or
\* clean_data fails, save_data is not invoked and the store is as the run
\* found it
C5_AbortOnFailure ==
  /\ [](\E n \in 0..3 : calls = SubSeq(<<"load_data", "clean_data", "save_data">>, 1, n))
  /\ [](err # "none" => pc = "failed")
  /\ [](pc = "failed" /\ Last(calls) \in {"load_data", "clean_data"} => db = dbBefore)
  /\ [][pc = "failed" => calls' = <<>> /\ db' = db]_vars

\* clean_data failed over a store that already holds a table
C5_Witness ==
  /\ pc = "failed"
  /\ calls = <<"load_data", "clean_data">>
  /\ dbBefore.exists
  /\ db = dbBefore

\* ---- C6 ----
\* C6: with a number of arguments other than 3, main prints the usage
\* message and ends without error; no stage is invoked, nothing is read and
\* the store is not touched
C6_UsageOnly ==
  /\ [](argc # 3 =>
          /\ calls = <<>> /\ err = "none" /\ pc \in {"start", "done"}
          /\ ~merged.live /\ ~cleaned.live /\ db = dbBefore
          /\ (pc = "done" => out = <<USAGE>>))
  /\ [][argc # 3 /\ pc = "start" => pc' = "done" /\ out' = <<USAGE>>]_vars

C6_Witness ==
  /\ argc # 3 /\ pc = "done" /\ out = <<USAGE>> /\ dbBefore.exists

\* ---- C7 ----
\* a token the claim says is rejected: missing, not exactly a name and a
\* value around one '-', or with a non-numeric value
ClaimedBadToken(i, k) ==
  \/ k > Len(Tokens(i))
  \/ Len(Split(Tokens(i)[k], "-")) # 2
  \/ ~IsIntLiteral(Split(Tokens(i)[k], "-")[2])

\* a token the code cannot convert: missing, without '-', or with a
\* non-numeric text after its first '-' (up to the next '-', if any)
RejectedToken(i, k) ==
  \/ k > Len(Tokens(i))
  \/ Len(Split(Tokens(i)[k], "-")) < 2
  \/ ~IsIntLiteral(Split(Tokens(i)[k], "-")[2])

C8_InputUntouched ==
  CleanCalled => /\ merged.columns = MergedInput.columns
                 /\ merged.data = MergedInput.data

\* ---- C9 ----
\* the integer the k-th token of merged row i carries
ParsedValue(i, k) == ParseInt(Split(Tokens(i)[k], "-")[2])

C10_NamesFromFirstRowValuesByPosition ==
  CleanCompleted =>
    /\ NumCats = Len(Tokens(1))
    /\ \A k \in 1..NumCats :
         cleaned.columns[2 + k] = Split(Tokens(1)[k], "-")[1]
    /\ \A j \in 1..Len(cleaned.data) : \A k \in 1..NumCats :
         cleaned.data[j][2 + k] =
           IF Split(Tokens(1)[k], "-")[1] = RELATED
           THEN RelatedFix(ParsedValue(SourceRow(j), k))
           ELSE ParsedValue(SourceRow(j), k)

\* a kept row whose tokens are named otherwise than the columns they fill,
\* and whose values would differ if looked up by name
C10_Witness ==
  /\ CleanCompleted
  /\ \E j \in 1..Len(cleaned.data) : \E k, m \in 1..NumCats :
       /\ Split(Tokens(SourceRow(j))[k], "-")[1] # cleaned.columns[2 + k]
       /\ Split(Tokens(SourceRow(j))[m], "-")[1] = cleaned.columns[2 + k]
       /\ ParsedValue(SourceRow(j), m) # ParsedValue(SourceRow(j), k)
       /\ cleaned.data[j][2 + k] = RelatedFix(ParsedValue(SourceRow(j), k))

====
